---- MODULE Spec2Model ----
(***************************************************************************)
(* Room & Signaling Hub of Code_With_Bandhu.                               *)
(*                                                                         *)
(* The hub is server/src/server.ts (src/unnamed/part_003): one Socket.IO   *)
(* handler per inbound event, all of them working on the rooms kept by     *)
(* utils/socketManager.  socketManager and the call relay are not part of  *)
(* the source tree at hand; their operators below follow the design        *)
(* document, sections 4.1 - 4.5.                                           *)
(***************************************************************************)
EXTENDS Integers, Sequences, FiniteSets, TLC

VARIABLES
    status,     \* per connection: "idle" (not yet connected), "up", "down"
    rooms,      \* socketManager's registry: roomId -> Room, only existing rooms
    roomOrder,  \* the registry's keys in insertion order (Map iteration order)
    pending,    \* create-room handlers suspended at `await Room.create(...)`
    sent,       \* per connection: the events the last handler emitted to it, in order
    nEvents,    \* number of inbound events the hub has handled in this run
    lastCode,   \* history: per roomId, the codes of the last two code-changes handled for it
    joined,     \* history: per roomId, the connections joined and not since gone
    inbox,      \* per connection: events emitted to it that its client has not handled yet
    messages,   \* per connection: the client's chat history (EditorContext messages)
    clientLanguage, \* per connection: the client's editor language (App.tsx language)
    clientCode, \* per connection: the client's document (App.tsx code)
    isJoined,   \* per connection: the client shows the editor, not the forms (App.tsx isJoined)
    clientRoomId, \* per connection: the client's roomId (EditorContext roomId), <<>> when none
    overtaken,  \* history: <<p, c>> when, since create-room p arrived, c was sent a
                \* broadcast of the room that has p's id
    output,     \* per connection: the client's run output panel (App.tsx output)
    langToRun,  \* per connection: the language of the run that waits for the execution
                \* service (App.tsx isRunning, langToRun), "" when there is none
    toast,      \* per connection: the error its client showed last (toast.error), "" when none
    outbox,     \* per connection: events its client emitted that the hub has not handled yet
    localStream,     \* per connection: the client has its camera stream (and inCall is set)
    listenerStream,  \* per connection: the localStream the registered call listeners closed over
    peerConnections, \* per connection: peerConnections.current, remote socket id -> connection
    remoteStreams,   \* per connection: the remote socket ids it shows a stream of
    offersMade, \* history: per connection and remote, the offers it created in this call
    nClicks     \* number of buttons (start call, leave call, run) pressed in this run

\* what the hub's handlers read and write
hubVars == <<status, rooms, roomOrder, pending, sent, nEvents, lastCode, joined>>

\* the transport's queues and the clients' state
clientVars == <<inbox, messages, clientLanguage, clientCode, isJoined, clientRoomId,
                output, langToRun, toast>>

\* the clients' video call state
callVars == <<outbox, localStream, listenerStream, peerConnections, remoteStreams, offersMade, nClicks>>

vars == <<status, rooms, roomOrder, pending, sent, nEvents, lastCode, joined,
          inbox, messages, clientLanguage, clientCode, isJoined, clientRoomId,
          overtaken, output, langToRun, toast,
          outbox, localStream, listenerStream, peerConnections, remoteStreams, offersMade, nClicks>>

----------------------------------------------------------------------------
(* Bounds of the model *)

\* inbound events (create, join, edits, call, disconnect) handled in one run
MaxEvents == 3

\* buttons (start call, leave call, run) pressed in one run
MaxClicks == 3

(* Input domains *)

Conns == {"c1", "c2", "c3"}
\* the order in which the transport hands out its fresh socket ids
ConnOrder == <<"c1", "c2", "c3">>
Names == {"ann"}
RoomNames == {"lab"}
Codes == {"print(1)", "print(2)"}
Languages == {"python", "java"}
ChatTexts == {"hi"}
\* the three negotiation events and what they carry (an offer, an answer, a candidate)
SignalKinds == {"webrtc-offer", "webrtc-answer", "webrtc-ice-candidate"}
SignalPayloads == {"sdp-1"}

\* tokens Math.random().toString(36).substring(2, 10) can produce, shortened
RandomTokens == {<<"k", "7">>, <<"q", "2">>}

\* String.prototype.toUpperCase, character by character
ToUpperChar(ch) ==
    CASE ch = "k" -> "K"
      [] ch = "q" -> "Q"
      [] OTHER -> ch

ToUpper(s) == [i \in 1..Len(s) |-> ToUpperChar(s[i])]

\* room ids a client can put into a payload: any casing, or the empty string
PayloadIds == RandomTokens \cup {ToUpper(t) : t \in RandomTokens} \cup {<<>>}

\* every key the registry can hold
RoomKeys == {ToUpper(t) : t \in RandomTokens}

DefaultCode == ""
DefaultLanguage == "javascript"
\* the language a client's editor starts with: useState('javascript')
ClientLanguage == "javascript"
NoCode == "<none>"

\* no RTCPeerConnection under a socket id.  A connection is kept as: how many
\* were created under the id since the entry was last deleted, whether its
\* remote description is set, and how many ICE candidates it has taken
NoPc == [made |-> 0, remote |-> FALSE, candidates |-> 0]

----------------------------------------------------------------------------
(* Events the hub emits *)

UsersUpdate(list) == [ev |-> "users-update", users |-> list]
RoomCreated(rid, list) == [ev |-> "room-created", roomId |-> rid, users |-> list]
JoinError(text) == [ev |-> "join-error", message |-> text]
JoinSuccess == [ev |-> "join-success"]
CodeUpdate(rid, code, uid) == [ev |-> "code-update", roomId |-> rid, code |-> code, userId |-> uid]
LanguageUpdate(lang) == [ev |-> "language-update", language |-> lang]
UserJoinedCall(c) == [ev |-> "user-joined-call", id |-> c]
UserLeftCall(c) == [ev |-> "user-left-call", id |-> c]
NewMessage(id, text, name, uid) ==
    [ev |-> "new-message", id |-> id, message |-> text, userName |-> name, userId |-> uid]
CallPeersList(ids) == [ev |-> "call-peers-list", peerIds |-> ids]
RunOutput(out, lang) == [ev |-> "run-output", output |-> out, language |-> lang]
Signal(kind, from, payload) == [ev |-> kind, from |-> from, payload |-> payload]

RoomNotFound == "Room not found!"
CreateFailed == "Failed to create room"

\* socket.emit / io.to(...).emit: one event to each connection of `to`.  A
\* connection that is not connected has no transport: the event is lost.
Emit(box, to, msg) ==
    [c \in Conns |-> IF c \in to /\ status[c] = "up" THEN Append(box[c], msg) ELSE box[c]]

\* nothing emitted yet
NoEvents == [c \in Conns |-> <<>>]

----------------------------------------------------------------------------
(* Room registry (socketManager) *)

Range(s) == {s[i] : i \in 1..Len(s)}

NewRoom == [code |-> DefaultCode, language |-> DefaultLanguage, users |-> <<>>, peers |-> {}]

\* the socket ids of a room's users, in join order
UserIds(room) == [i \in 1..Len(room.users) |-> room.users[i].socketId]

Members(room) == Range(UserIds(room))

\* getRoom: the room, or nothing
HasRoom(rs, rid) == rid \in DOMAIN rs

\* Map.set(socketId, participant): overwrite in place, or append
PutUser(users, c, name) ==
    IF \E i \in 1..Len(users) : users[i].socketId = c
    THEN [i \in 1..Len(users) |->
            IF users[i].socketId = c THEN [socketId |-> c, userName |-> name] ELSE users[i]]
    ELSE Append(users, [socketId |-> c, userName |-> name])

\* Map.delete(socketId)
DropUser(users, c) == SelectSeq(users, LAMBDA u : u.socketId # c)

\* joinRoom, registry part: the room is created when it is not there yet, and
\* the connection is added to (or overwritten in) its users
JoinRoomState(rs, rid, c, name) ==
    LET room == IF HasRoom(rs, rid) THEN rs[rid] ELSE NewRoom
    IN  (rid :> [room EXCEPT !.users = PutUser(@, c, name)]) @@ rs

\* the registry's key order after joinRoom
JoinRoomOrder(order, rs, rid) == IF HasRoom(rs, rid) THEN order ELSE Append(order, rid)

\* joinRoom, presence part: users-update to the whole room
JoinRoomEmit(box, rs, rid) ==
    Emit(box, Members(rs[rid]), UsersUpdate(rs[rid].users))

\* leaveRoom: the connection leaves the room's users and, when it is in the
\* room's call, the call (user-left-call to the peers that remain); then the
\* presence list goes to the members that remain.  st = [rooms, box].
LeaveRoom(st, rid, c) ==
    LET room == st.rooms[rid]
        left == [room EXCEPT !.users = DropUser(@, c), !.peers = @ \ {c}]
        box1 == IF c \in room.peers
                THEN Emit(st.box, left.peers, UserLeftCall(c))
                ELSE st.box
    IN  [rooms |-> [st.rooms EXCEPT ![rid] = left],
         box |-> Emit(box1, Members(left), UsersUpdate(left.users))]

\* updateCode: full-buffer replace, then code-update to every member but userId
UpdateCodeState(rs, rid, code) ==
    IF HasRoom(rs, rid) THEN [rs EXCEPT ![rid].code = code] ELSE rs

UpdateCodeEmit(box, rs, rid, code, userId) ==
    IF HasRoom(rs, rid)
    THEN Emit(box, Members(rs[rid]) \ {userId}, CodeUpdate(rid, code, userId))
    ELSE box

\* updateLanguage: write the language, then language-update to every member
UpdateLanguageState(rs, rid, lang) ==
    IF HasRoom(rs, rid) THEN [rs EXCEPT ![rid].language = lang] ELSE rs

UpdateLanguageEmit(box, rs, rid, lang) ==
    IF HasRoom(rs, rid) THEN Emit(box, Members(rs[rid]), LanguageUpdate(lang)) ELSE box

\* broadcastMessage: new-message to every member, the sender included
BroadcastMessageEmit(box, rs, rid, msg) ==
    IF HasRoom(rs, rid) THEN Emit(box, Members(rs[rid]), msg) ELSE box

\* joinCall: the connection enters the room's call; the peers already in the
\* call are told
JoinCallState(rs, rid, c) ==
    IF HasRoom(rs, rid) THEN [rs EXCEPT ![rid].peers = @ \cup {c}] ELSE rs

JoinCallEmit(box, rs, rid, c) ==
    IF HasRoom(rs, rid) THEN Emit(box, rs[rid].peers \ {c}, UserJoinedCall(c)) ELSE box

\* get-call-peers answered with every peer of the call, the requester too
GetCallPeersWithSelf(box, rs, rid, c) ==
    IF HasRoom(rs, rid) THEN Emit(box, {c}, CallPeersList(rs[rid].peers)) ELSE box

\* get-call-peers: the peers of the room's call, the requester left out, to
\* the requester
GetCallPeersEmit(box, rs, rid, c) ==
    IF HasRoom(rs, rid) THEN Emit(box, {c}, CallPeersList(rs[rid].peers \ {c})) ELSE box

\* run-output: relayed as it is to every member of the room
RunOutputEmit(box, rs, rid, out, lang) ==
    IF HasRoom(rs, rid) THEN Emit(box, Members(rs[rid]), RunOutput(out, lang)) ELSE box

\* leaveCall: the connection leaves the room's call; the peers that remain are told
LeaveCallState(rs, rid, c) ==
    IF HasRoom(rs, rid) THEN [rs EXCEPT ![rid].peers = @ \ {c}] ELSE rs

LeaveCallEmit(box, rs, rid, c) ==
    IF HasRoom(rs, rid) THEN Emit(box, rs[rid].peers \ {c}, UserLeftCall(c)) ELSE box

\* relayOffer, relayAnswer, relayIceCandidate: forwarded to `to` alone when
\* `to` is in the room's users, dropped otherwise
RelayEmit(box, rs, rid, kind, from, to, payload) ==
    IF HasRoom(rs, rid) /\ to \in Members(rs[rid])
    THEN Emit(box, {to}, Signal(kind, from, payload))
    ELSE box

----------------------------------------------------------------------------
(* The hub's handlers (server.ts) *)

Up(c) == status[c] = "up"
Budget == nEvents < MaxEvents
Count == nEvents' = nEvents + 1

Init ==
    /\ status = [c \in Conns |-> "idle"]
    /\ rooms = <<>>
    /\ roomOrder = <<>>
    /\ pending = {}
    /\ sent = NoEvents
    /\ nEvents = 0
    /\ lastCode = [r \in RoomKeys |-> [code |-> NoCode, prev |-> NoCode]]
    /\ joined = [r \in RoomKeys |-> {}]
    /\ inbox = NoEvents
    /\ messages = [c \in Conns |-> <<>>]
    /\ clientLanguage = [c \in Conns |-> ClientLanguage]
    /\ clientCode = [c \in Conns |-> ""]
    /\ isJoined = [c \in Conns |-> FALSE]
    /\ clientRoomId = [c \in Conns |-> <<>>]
    /\ overtaken = {}
    /\ output = [c \in Conns |-> ""]
    /\ langToRun = [c \in Conns |-> ""]
    /\ toast = [c \in Conns |-> ""]
    /\ outbox = NoEvents
    /\ localStream = [c \in Conns |-> FALSE]
    /\ listenerStream = [c \in Conns |-> FALSE]
    /\ peerConnections = [c \in Conns |-> [p \in Conns |-> NoPc]]
    /\ remoteStreams = [c \in Conns |-> {}]
    /\ offersMade = [c \in Conns |-> [p \in Conns |-> 0]]
    /\ nClicks = 0

\* io.on('connection'): a new socket, with an id never used before
Connect(c) ==
    /\ status[c] = "idle"
    /\ \A i, j \in 1..Len(ConnOrder) : i < j /\ ConnOrder[j] = c => status[ConnOrder[i]] # "idle"
    /\ status' = [status EXCEPT ![c] = "up"]
    /\ sent' = NoEvents
    /\ UNCHANGED <<rooms, roomOrder, pending, nEvents, lastCode, joined>>

\* create-room, up to `await Room.create(...)`: the id is drawn and the
\* room-catalog write is started
OnCreateRoom(c, roomName, userName, token) ==
    LET p == [conn |-> c, roomId |-> ToUpper(token), name |-> roomName, userName |-> userName]
    IN  /\ Up(c) /\ Budget /\ Count
        /\ p \notin pending
        /\ pending' = pending \cup {p}
        /\ sent' = NoEvents
        /\ UNCHANGED <<status, rooms, roomOrder, lastCode, joined>>

\* create-room, after the room-catalog write succeeded: socket.join, joinRoom,
\* room-created to the caller
CreateRoomResolved(p) ==
    LET rs == JoinRoomState(rooms, p.roomId, p.conn, p.userName)
        box == Emit(JoinRoomEmit(NoEvents, rs, p.roomId), {p.conn},
                    RoomCreated(p.roomId, rs[p.roomId].users))
    IN  /\ p \in pending
        /\ pending' = pending \ {p}
        /\ rooms' = rs
        /\ roomOrder' = JoinRoomOrder(roomOrder, rooms, p.roomId)
        /\ sent' = box
        /\ joined' = [joined EXCEPT ![p.roomId] = @ \cup {p.conn}]
        /\ UNCHANGED <<status, nEvents, lastCode>>

\* create-room as it would be with the room put into the registry before the
\* room-catalog write and left there when the write fails
CreateRoomRejectedKeepsRoom(p) ==
    LET box == Emit(NoEvents, {p.conn}, JoinError(CreateFailed))
    IN  /\ p \in pending
        /\ pending' = pending \ {p}
        /\ sent' = box
        /\ rooms' = IF HasRoom(rooms, p.roomId) THEN rooms ELSE (p.roomId :> NewRoom) @@ rooms
        /\ roomOrder' = JoinRoomOrder(roomOrder, rooms, p.roomId)
        /\ UNCHANGED <<status, nEvents, lastCode, joined>>

\* create-room, after the room-catalog write failed: the catch block
CreateRoomRejected(p) ==
    LET box == Emit(NoEvents, {p.conn}, JoinError(CreateFailed))
    IN  /\ p \in pending
        /\ pending' = pending \ {p}
        /\ sent' = box
        /\ UNCHANGED <<status, rooms, roomOrder, nEvents, lastCode, joined>>

\* join-room as it would be without the `if (!room)` check
OnJoinRoomNoLookup(c, roomId, userName) ==
    LET rid == ToUpper(roomId)
        rs == JoinRoomState(rooms, rid, c, userName)
        box == Emit(JoinRoomEmit(NoEvents, rs, rid), {c}, JoinSuccess)
    IN  /\ Up(c) /\ Budget /\ Count
        /\ sent' = box
        /\ rooms' = rs
        /\ roomOrder' = JoinRoomOrder(roomOrder, rooms, rid)
        /\ joined' = IF rid \in RoomKeys THEN [joined EXCEPT ![rid] = @ \cup {c}] ELSE joined
        /\ UNCHANGED <<status, pending, lastCode>>

\* join-room as it would be if a socket already in the room's users were left
\* as it is there: `if (!room.users.has(socket.id)) socketManager.joinRoom(...)`
OnJoinRoomKeepsFirst(c, roomId, userName) ==
    LET rid == ToUpper(roomId)
        rs == IF HasRoom(rooms, rid) /\ c \in Members(rooms[rid])
              THEN rooms
              ELSE JoinRoomState(rooms, rid, c, userName)
        box == IF HasRoom(rooms, rid)
               THEN Emit(JoinRoomEmit(NoEvents, rs, rid), {c}, JoinSuccess)
               ELSE Emit(NoEvents, {c}, JoinError(RoomNotFound))
    IN  /\ Up(c) /\ Budget /\ Count
        /\ sent' = box
        /\ IF HasRoom(rooms, rid)
           THEN /\ rooms' = rs
                /\ joined' = [joined EXCEPT ![rid] = @ \cup {c}]
           ELSE UNCHANGED <<rooms, joined>>
        /\ UNCHANGED <<status, roomOrder, pending, lastCode>>

\* join-room as it would be if an id whose create-room is still at its
\* room-catalog write counted as a room
OnJoinRoomSeesPending(c, roomId, userName) ==
    LET rid == ToUpper(roomId)
        found == HasRoom(rooms, rid) \/ \E p \in pending : p.roomId = rid
        rs == JoinRoomState(rooms, rid, c, userName)
        box == IF found
               THEN Emit(JoinRoomEmit(NoEvents, rs, rid), {c}, JoinSuccess)
               ELSE Emit(NoEvents, {c}, JoinError(RoomNotFound))
    IN  /\ Up(c) /\ Budget /\ Count
        /\ sent' = box
        /\ IF found
           THEN /\ rooms' = rs
                /\ roomOrder' = JoinRoomOrder(roomOrder, rooms, rid)
                /\ joined' = [joined EXCEPT ![rid] = @ \cup {c}]
           ELSE UNCHANGED <<rooms, roomOrder, joined>>
        /\ UNCHANGED <<status, pending, lastCode>>

\* join-room as it would be with join-success emitted and the call of
\* socketManager.joinRoom left out
OnJoinRoomAnswersOnly(c, roomId, userName) ==
    LET rid == ToUpper(roomId)
        box == IF HasRoom(rooms, rid)
               THEN Emit(NoEvents, {c}, JoinSuccess)
               ELSE Emit(NoEvents, {c}, JoinError(RoomNotFound))
    IN  /\ Up(c) /\ Budget /\ Count
        /\ sent' = box
        /\ joined' = IF HasRoom(rooms, rid) THEN [joined EXCEPT ![rid] = @ \cup {c}] ELSE joined
        /\ UNCHANGED <<status, rooms, roomOrder, pending, lastCode>>

\* join-room
OnJoinRoom(c, roomId, userName) ==
    LET rid == ToUpper(roomId)
        rs == JoinRoomState(rooms, rid, c, userName)
        box == IF HasRoom(rooms, rid)
               THEN Emit(JoinRoomEmit(NoEvents, rs, rid), {c}, JoinSuccess)
               ELSE Emit(NoEvents, {c}, JoinError(RoomNotFound))
    IN  /\ Up(c) /\ Budget /\ Count
        /\ sent' = box
        /\ IF HasRoom(rooms, rid)
           THEN /\ rooms' = rs
                /\ joined' = [joined EXCEPT ![rid] = @ \cup {c}]
           ELSE UNCHANGED <<rooms, joined>>
        /\ UNCHANGED <<status, roomOrder, pending, lastCode>>

\* code-change as it would be with updateCode's arguments in the wrong order:
\* updateCode(roomId, userId, code)
OnCodeChangeSwappedArgs(c, roomId, code, userId) ==
    LET box == IF roomId = <<>> THEN NoEvents
               ELSE UpdateCodeEmit(NoEvents, rooms, roomId, userId, code)
    IN  /\ Up(c) /\ Budget /\ Count
        /\ sent' = box
        /\ rooms' = IF roomId = <<>> THEN rooms ELSE UpdateCodeState(rooms, roomId, userId)
        /\ lastCode' = IF roomId # <<>> /\ HasRoom(rooms, roomId)
                       THEN [lastCode EXCEPT ![roomId] = [code |-> code, prev |-> @.code]]
                       ELSE lastCode
        /\ UNCHANGED <<status, roomOrder, pending, joined>>

\* code-change
OnCodeChange(c, roomId, code, userId) ==
    LET box == IF roomId = <<>> THEN NoEvents
               ELSE UpdateCodeEmit(NoEvents, rooms, roomId, code, userId)
    IN  /\ Up(c) /\ Budget /\ Count
        /\ sent' = box
        /\ rooms' = IF roomId = <<>> THEN rooms ELSE UpdateCodeState(rooms, roomId, code)
        /\ lastCode' = IF roomId # <<>> /\ HasRoom(rooms, roomId)
                       THEN [lastCode EXCEPT ![roomId] = [code |-> code, prev |-> @.code]]
                       ELSE lastCode
        /\ UNCHANGED <<status, roomOrder, pending, joined>>

\* language-change
OnLanguageChange(c, roomId, language) ==
    LET skip == roomId = <<>> \/ language = ""
        box == IF skip THEN NoEvents ELSE UpdateLanguageEmit(NoEvents, rooms, roomId, language)
    IN  /\ Up(c) /\ Budget /\ Count
        /\ sent' = box
        /\ rooms' = IF skip THEN rooms ELSE UpdateLanguageState(rooms, roomId, language)
        /\ UNCHANGED <<status, roomOrder, pending, lastCode, joined>>

\* chat-message as it would be with the sender's socket id for the message id
OnChatMessageIdFromSender(c, roomId, message, userName) ==
    LET skip == roomId = <<>> \/ message = "" \/ userName = ""
        msg == NewMessage(c, message, userName, c)
        box == IF skip THEN NoEvents ELSE BroadcastMessageEmit(NoEvents, rooms, roomId, msg)
    IN  /\ Up(c) /\ Budget /\ Count
        /\ sent' = box
        /\ UNCHANGED <<status, rooms, roomOrder, pending, lastCode, joined>>

\* chat-message.  uuidv4() never yields the same id twice: the id is the
\* number of the event.  The server's time stamp is left out.
OnChatMessage(c, roomId, message, userName) ==
    LET skip == roomId = <<>> \/ message = "" \/ userName = ""
        msg == NewMessage(nEvents + 1, message, userName, c)
        box == IF skip THEN NoEvents ELSE BroadcastMessageEmit(NoEvents, rooms, roomId, msg)
    IN  /\ Up(c) /\ Budget /\ Count
        /\ sent' = box
        /\ UNCHANGED <<status, rooms, roomOrder, pending, lastCode, joined>>

\* join-call
OnJoinCall(c, roomId) ==
    LET box == JoinCallEmit(NoEvents, rooms, roomId, c)
    IN  /\ Up(c) /\ Budget /\ Count
        /\ sent' = box
        /\ rooms' = JoinCallState(rooms, roomId, c)
        /\ UNCHANGED <<status, roomOrder, pending, lastCode, joined>>

\* leave-call
OnLeaveCall(c, roomId) ==
    LET box == LeaveCallEmit(NoEvents, rooms, roomId, c)
    IN  /\ Up(c) /\ Budget /\ Count
        /\ sent' = box
        /\ rooms' = LeaveCallState(rooms, roomId, c)
        /\ UNCHANGED <<status, roomOrder, pending, lastCode, joined>>

\* the negotiation events as they would be forwarded without looking `to` up
\* in the room: io.to(to).emit(...)
OnWebrtcSignalToAnyone(c, kind, roomId, to, payload) ==
    /\ Up(c) /\ Budget /\ Count
    /\ sent' = Emit(NoEvents, {to}, Signal(kind, c, payload))
    /\ UNCHANGED <<status, rooms, roomOrder, pending, lastCode, joined>>

\* webrtc-offer, webrtc-answer, webrtc-ice-candidate
OnWebrtcSignal(c, kind, roomId, to, payload) ==
    /\ Up(c) /\ Budget /\ Count
    /\ sent' = RelayEmit(NoEvents, rooms, roomId, kind, c, to, payload)
    /\ UNCHANGED <<status, rooms, roomOrder, pending, lastCode, joined>>

\* the scan as it would be without the test for membership
RECURSIVE LeaveAllUnguarded(_, _, _)
LeaveAllUnguarded(st, order, c) ==
    IF order = <<>> THEN st
    ELSE LeaveAllUnguarded(LeaveRoom(st, Head(order), c), Tail(order), c)

\* disconnect: rooms.forEach, leaveRoom for every room that holds the socket
RECURSIVE LeaveAll(_, _, _)
LeaveAll(st, order, c) ==
    IF order = <<>> THEN st
    ELSE LET rid == Head(order)
             next == IF c \in Members(st.rooms[rid]) THEN LeaveRoom(st, rid, c) ELSE st
         IN  LeaveAll(next, Tail(order), c)

\* disconnect as it would be if the scan stopped at the first room found
RECURSIVE LeaveFirst(_, _, _)
LeaveFirst(st, order, c) ==
    IF order = <<>> THEN st
    ELSE IF c \in Members(st.rooms[Head(order)]) THEN LeaveRoom(st, Head(order), c)
    ELSE LeaveFirst(st, Tail(order), c)

OnDisconnectFirstRoomOnly(c) ==
    LET st == LeaveFirst([rooms |-> rooms, box |-> NoEvents], roomOrder, c)
    IN  /\ Up(c) /\ Budget /\ Count
        /\ status' = [status EXCEPT ![c] = "down"]
        /\ rooms' = st.rooms
        /\ sent' = [st.box EXCEPT ![c] = <<>>]
        /\ joined' = [r \in RoomKeys |-> joined[r] \ {c}]
        /\ UNCHANGED <<roomOrder, pending, lastCode>>

\* disconnect as it would be if a room were deleted when its last user leaves
OnDisconnectDropsEmptyRoom(c) ==
    LET st == LeaveAll([rooms |-> rooms, box |-> NoEvents], roomOrder, c)
        kept == {r \in DOMAIN st.rooms : st.rooms[r].users # <<>>}
    IN  /\ Up(c) /\ Budget /\ Count
        /\ status' = [status EXCEPT ![c] = "down"]
        /\ rooms' = [r \in kept |-> st.rooms[r]]
        /\ roomOrder' = SelectSeq(roomOrder, LAMBDA r : r \in kept)
        /\ sent' = [st.box EXCEPT ![c] = <<>>]
        /\ joined' = [r \in RoomKeys |-> joined[r] \ {c}]
        /\ UNCHANGED <<pending, lastCode>>

OnDisconnect(c) ==
    LET st == LeaveAll([rooms |-> rooms, box |-> NoEvents], roomOrder, c)
        box == [st.box EXCEPT ![c] = <<>>]
    IN  /\ Up(c) /\ Budget /\ Count
        /\ status' = [status EXCEPT ![c] = "down"]
        /\ rooms' = st.rooms
        /\ sent' = box
        /\ joined' = [r \in RoomKeys |-> joined[r] \ {c}]
        /\ UNCHANGED <<roomOrder, pending, lastCode>>

\* a handler of the hub, seen without the clients
Hub(A) == A /\ UNCHANGED <<clientVars, callVars, overtaken>>

Next ==
    \/ \E c \in Conns : Hub(Connect(c))
    \/ \E c \in Conns, n \in RoomNames, u \in Names, t \in RandomTokens :
            Hub(OnCreateRoom(c, n, u, t))
    \/ \E p \in pending : Hub(CreateRoomResolved(p))
    \/ \E p \in pending : Hub(CreateRoomRejected(p))
    \/ \E c \in Conns, r \in PayloadIds, u \in Names : Hub(OnJoinRoom(c, r, u))
    \/ \E c \in Conns, r \in PayloadIds, k \in Codes, u \in Conns : Hub(OnCodeChange(c, r, k, u))
    \/ \E c \in Conns, r \in PayloadIds, l \in Languages \cup {""} : Hub(OnLanguageChange(c, r, l))
    \/ \E c \in Conns, r \in PayloadIds : Hub(OnJoinCall(c, r))
    \/ \E c \in Conns, r \in PayloadIds : Hub(OnLeaveCall(c, r))
    \/ \E c \in Conns : Hub(OnDisconnect(c))

Spec == Init /\ [][Next]_vars

\* The gateway alone, with two display names: create, join, disconnect
JoinNames == {"ann", "bob"}

NextJoin ==
    \/ \E c \in Conns : Hub(Connect(c))
    \/ \E c \in Conns, n \in RoomNames, u \in JoinNames, t \in RandomTokens :
            Hub(OnCreateRoom(c, n, u, t))
    \/ \E p \in pending : Hub(CreateRoomResolved(p))
    \/ \E p \in pending : Hub(CreateRoomRejected(p))
    \/ \E c \in Conns, r \in PayloadIds, u \in JoinNames : Hub(OnJoinRoom(c, r, u))
    \/ \E c \in Conns : Hub(OnDisconnect(c))

SpecJoin == Init /\ [][NextJoin]_vars

\* The hub with the arrival order of its events kept.  Every handler but
\* create-room emits before the next event is taken up; create-room emits when
\* its room-catalog write has returned.
RoomBroadcasts == {"code-update", "language-update", "new-message", "users-update"}

\* box holds a room broadcast for connection c
GotBroadcast(box, c) == \E i \in 1..Len(box[c]) : box[c][i].ev \in RoomBroadcasts

\* a handler whose broadcasts are those of the rooms rids: they overtake the
\* create-rooms that drew one of these ids and have not emitted yet
Track(A, rids) ==
    /\ A
    /\ overtaken' =
         {pr \in overtaken \cup {<<p, c>> : p \in {q \in pending : q.roomId \in rids},
                                            c \in {d \in Conns : GotBroadcast(sent', d)}} :
            pr[1] \in pending'}
    /\ UNCHANGED <<clientVars, callVars>>

NextOrder ==
    \/ \E c \in Conns : Track(Connect(c), {})
    \/ \E c \in Conns, n \in RoomNames, u \in Names, t \in RandomTokens :
            Track(OnCreateRoom(c, n, u, t), {})
    \/ \E p \in pending : Track(CreateRoomResolved(p), {})
    \/ \E p \in pending : Track(CreateRoomRejected(p), {})
    \/ \E c \in Conns, r \in PayloadIds, u \in Names : Track(OnJoinRoom(c, r, u), {ToUpper(r)})
    \/ \E c \in Conns, r \in PayloadIds, k \in Codes, u \in Conns :
            Track(OnCodeChange(c, r, k, u), {r})
    \/ \E c \in Conns, r \in PayloadIds, l \in Languages : Track(OnLanguageChange(c, r, l), {r})
    \/ \E c \in Conns, r \in PayloadIds, t \in ChatTexts, u \in Names :
            Track(OnChatMessage(c, r, t, u), {r})
    \/ \E c \in Conns :
            Track(OnDisconnect(c), {r \in DOMAIN rooms : c \in Members(rooms[r])})

SpecOrder == Init /\ [][NextOrder]_vars

----------------------------------------------------------------------------
(* The hub with its clients (client/src/App.tsx) *)

\* a run that starts with room K7 open: c1 created it and c2 joined it, and
\* both clients have handled what they were sent
InitRoom ==
    /\ status = [c \in Conns |-> IF c \in {"c1", "c2"} THEN "up" ELSE "idle"]
    /\ rooms = JoinRoomState(JoinRoomState(<<>>, <<"K", "7">>, "c1", "ann"),
                             <<"K", "7">>, "c2", "ann")
    /\ roomOrder = << <<"K", "7">> >>
    /\ pending = {}
    /\ sent = NoEvents
    /\ nEvents = 0
    /\ lastCode = [r \in RoomKeys |-> [code |-> NoCode, prev |-> NoCode]]
    /\ joined = [r \in RoomKeys |-> IF r = <<"K", "7">> THEN {"c1", "c2"} ELSE {}]
    /\ inbox = NoEvents
    /\ messages = [c \in Conns |-> <<>>]
    /\ clientLanguage = [c \in Conns |-> ClientLanguage]
    /\ clientCode = [c \in Conns |-> ""]
    /\ isJoined = [c \in Conns |-> c \in {"c1", "c2"}]
    /\ clientRoomId = [c \in Conns |-> IF c \in {"c1", "c2"} THEN <<"K", "7">> ELSE <<>>]
    /\ overtaken = {}
    /\ output = [c \in Conns |-> ""]
    /\ langToRun = [c \in Conns |-> ""]
    /\ toast = [c \in Conns |-> ""]
    /\ outbox = NoEvents
    /\ localStream = [c \in Conns |-> FALSE]
    /\ listenerStream = [c \in Conns |-> FALSE]
    /\ peerConnections = [c \in Conns |-> [p \in Conns |-> NoPc]]
    /\ remoteStreams = [c \in Conns |-> {}]
    /\ offersMade = [c \in Conns |-> [p \in Conns |-> 0]]
    /\ nClicks = 0

\* a handler of the hub together with the transport: what it emits to a
\* connection queues up, in order, behind what that connection has not yet
\* handled; a connection that is gone handles nothing any more
Net(A) ==
    /\ A
    /\ inbox' = [c \in Conns |-> IF status'[c] = "up" THEN inbox[c] \o sent'[c] ELSE <<>>]
    /\ UNCHANGED <<messages, clientLanguage, clientCode, isJoined, clientRoomId, output, langToRun, toast,
                 callVars, overtaken>>

\* the events the call listeners of a client handle
CallEvents == SignalKinds \cup {"call-peers-list", "user-joined-call", "user-left-call"}

\* the client's listeners: the next event of its queue is handled.
\* onNewMessage = addMessage(msg), onLanguageUpdate = setLanguage(newLanguage),
\* onRunOutput = setOutput(data.output), setLanguage(data.language),
\* onCodeUpdate = the code is taken unless the update names the client itself,
\* onUsersUpdate = joined when the list holds the client's socket id,
\* onRoomCreated = the room id is taken and the client is joined,
\* onJoinSuccess = joined, onJoinError = the message is shown, not joined
Deliver(c) ==
    /\ Up(c)
    /\ inbox[c] # <<>>
    /\ Head(inbox[c]).ev \notin CallEvents
    /\ inbox' = [inbox EXCEPT ![c] = Tail(@)]
    /\ messages' = IF Head(inbox[c]).ev = "new-message"
                   THEN [messages EXCEPT ![c] = Append(@, Head(inbox[c]))]
                   ELSE messages
    /\ clientLanguage' = IF Head(inbox[c]).ev \in {"language-update", "run-output"}
                         THEN [clientLanguage EXCEPT ![c] = Head(inbox[c]).language]
                         ELSE clientLanguage
    /\ output' = IF Head(inbox[c]).ev = "run-output"
                 THEN [output EXCEPT ![c] = Head(inbox[c]).output]
                 ELSE output
    /\ clientCode' = IF Head(inbox[c]).ev = "code-update" /\ Head(inbox[c]).userId # c
                     THEN [clientCode EXCEPT ![c] = Head(inbox[c]).code]
                     ELSE clientCode
    /\ isJoined' = CASE Head(inbox[c]).ev \in {"room-created", "join-success"} ->
                           [isJoined EXCEPT ![c] = TRUE]
                      [] Head(inbox[c]).ev = "users-update" ->
                           [isJoined EXCEPT ![c] = @ \/ c \in Range(UserIds(Head(inbox[c])))]
                      [] Head(inbox[c]).ev = "join-error" -> [isJoined EXCEPT ![c] = FALSE]
                      [] OTHER -> isJoined
    /\ clientRoomId' = IF Head(inbox[c]).ev = "room-created"
                       THEN [clientRoomId EXCEPT ![c] = Head(inbox[c]).roomId]
                       ELSE clientRoomId
    /\ toast' = IF Head(inbox[c]).ev = "join-error"
                THEN [toast EXCEPT ![c] = Head(inbox[c]).message]
                ELSE toast
    /\ UNCHANGED <<hubVars, langToRun, callVars, overtaken>>

\* Chat: members of a room, a newcomer, chat messages, disconnects
NextChat ==
    \/ \E c \in Conns : Net(Connect(c))
    \/ \E c \in Conns, r \in PayloadIds, u \in Names : Net(OnJoinRoom(c, r, u))
    \/ \E c \in Conns, r \in PayloadIds, t \in ChatTexts \cup {""}, u \in Names \cup {""} :
            Net(OnChatMessage(c, r, t, u))
    \/ \E c \in Conns : Net(OnDisconnect(c))
    \/ \E c \in Conns : Deliver(c)

SpecChat == InitRoom /\ [][NextChat]_vars

\* the language <select> of a client that is in room roomId: setLanguage, then
\* language-change to the hub, which handles it
SelectLanguage(c, roomId, newLang) ==
    /\ HasRoom(rooms, roomId)
    /\ c \in Members(rooms[roomId])
    /\ OnLanguageChange(c, roomId, newLang)
    /\ clientLanguage' = [clientLanguage EXCEPT ![c] = newLang]
    /\ inbox' = [d \in Conns |-> IF status'[d] = "up" THEN inbox[d] \o sent'[d] ELSE <<>>]
    /\ UNCHANGED <<messages, clientCode, isJoined, clientRoomId, output, langToRun, toast, callVars, overtaken>>

\* Language: members of a room, a newcomer, language selections, disconnects
NextLanguage ==
    \/ \E c \in Conns : Net(Connect(c))
    \/ \E c \in Conns, r \in PayloadIds, u \in Names : Net(OnJoinRoom(c, r, u))
    \/ \E c \in Conns, r \in RoomKeys, l \in Languages : SelectLanguage(c, r, l)
    \/ \E c \in Conns : Net(OnDisconnect(c))
    \/ \E c \in Conns : Deliver(c)

SpecLanguage == InitRoom /\ [][NextLanguage]_vars

\* The relay: members of a room, a newcomer, the call, negotiation events,
\* disconnects
NextRelay ==
    \/ \E c \in Conns : Hub(Connect(c))
    \/ \E c \in Conns, r \in PayloadIds, u \in Names : Hub(OnJoinRoom(c, r, u))
    \/ \E c \in Conns, r \in PayloadIds : Hub(OnJoinCall(c, r))
    \/ \E c \in Conns, k \in SignalKinds, r \in PayloadIds, to \in Conns, y \in SignalPayloads :
            Hub(OnWebrtcSignal(c, k, r, to, y))
    \/ \E c \in Conns : Hub(OnDisconnect(c))

SpecRelay == InitRoom /\ [][NextRelay]_vars

----------------------------------------------------------------------------
(* The video call: the clients' call state and the hub's relay *)

\* the roomId a joined client holds: the room it is in
ClientRoom(c) ==
    IF \E r \in DOMAIN rooms : c \in Members(rooms[r])
    THEN CHOOSE r \in DOMAIN rooms : c \in Members(rooms[r])
    ELSE <<>>

\* the connections of a set, in the order of ConnOrder
InOrder(set) == SelectSeq(ConnOrder, LAMBDA x : x \in set)

\* what a client emits
JoinCall(rid) == [ev |-> "join-call", roomId |-> rid]
GetCallPeers(rid) == [ev |-> "get-call-peers", roomId |-> rid]
LeaveCall(rid) == [ev |-> "leave-call", roomId |-> rid]
SignalTo(kind, rid, to, payload) == [ev |-> kind, roomId |-> rid, to |-> to, payload |-> payload]

\* an offer or an answer says whether its sender added the tracks of a stream
Sdp(tracks) == [tracks |-> tracks]

\* pc.onicecandidate: a connection whose local description was just set
\* gathers a candidate and sends it to the peer
IceCandidate(c, to) == SignalTo("webrtc-ice-candidate", ClientRoom(c), to, "candidate")

\* the call listeners are registered in an effect that depends on
\* localStream: after setLocalStream the listeners in place are still those
\* of the last render, until the effect has run again
EffectRuns(c) ==
    /\ listenerStream[c] # localStream[c]
    /\ listenerStream' = [listenerStream EXCEPT ![c] = localStream[c]]
    /\ UNCHANGED <<hubVars, clientVars, overtaken>>
    /\ UNCHANGED <<outbox, localStream, peerConnections, remoteStreams, offersMade, nClicks>>

\* a button's handler, and the effect run before any event is handled
Rendered(A) == A /\ listenerStream' = localStream'

\* a button's handler alone; the effect has yet to run
Unrendered(A) == A /\ UNCHANGED listenerStream

\* startCall: getUserMedia gave a stream; setLocalStream, join-call, then
\* get-call-peers
StartCall(c) ==
    /\ Up(c)
    /\ nClicks < MaxClicks
    /\ ClientRoom(c) # <<>>
    /\ ~localStream[c]
    /\ localStream' = [localStream EXCEPT ![c] = TRUE]
    /\ outbox' = [outbox EXCEPT ![c] = @ \o <<JoinCall(ClientRoom(c)), GetCallPeers(ClientRoom(c))>>]
    /\ nClicks' = nClicks + 1
    /\ UNCHANGED <<hubVars, clientVars, overtaken, peerConnections, remoteStreams, offersMade>>

\* leaveCall: leave-call, every peer connection closed and dropped, the
\* stream stopped
LeaveCallClick(c) ==
    /\ Up(c)
    /\ nClicks < MaxClicks
    /\ localStream[c]
    /\ outbox' = [outbox EXCEPT ![c] = Append(@, LeaveCall(ClientRoom(c)))]
    /\ peerConnections' = [peerConnections EXCEPT ![c] = [p \in Conns |-> NoPc]]
    /\ localStream' = [localStream EXCEPT ![c] = FALSE]
    /\ remoteStreams' = [remoteStreams EXCEPT ![c] = {}]
    /\ offersMade' = [a \in Conns |-> [b \in Conns |->
                        IF a = c \/ b = c THEN 0 ELSE offersMade[a][b]]]
    /\ nClicks' = nClicks + 1
    /\ UNCHANGED <<hubVars, clientVars, overtaken>>

\* the hub handles the next event of a client: join-call, get-call-peers,
\* leave-call, run-output, or one of the negotiation events
HubTakes(c) ==
    /\ Up(c)
    /\ outbox[c] # <<>>
    /\ LET e == Head(outbox[c])
       IN  /\ rooms' = CASE e.ev = "join-call" -> JoinCallState(rooms, e.roomId, c)
                         [] e.ev = "leave-call" -> LeaveCallState(rooms, e.roomId, c)
                         [] OTHER -> rooms
           /\ sent' = CASE e.ev = "join-call" -> JoinCallEmit(NoEvents, rooms, e.roomId, c)
                        [] e.ev = "get-call-peers" -> GetCallPeersEmit(NoEvents, rooms, e.roomId, c)
                        [] e.ev = "leave-call" -> LeaveCallEmit(NoEvents, rooms, e.roomId, c)
                        [] e.ev = "run-output" ->
                              RunOutputEmit(NoEvents, rooms, e.roomId, e.output, e.language)
                        [] OTHER -> RelayEmit(NoEvents, rooms, e.roomId, e.ev, c, e.to, e.payload)
    /\ outbox' = [outbox EXCEPT ![c] = Tail(@)]
    /\ inbox' = [d \in Conns |-> IF Up(d) THEN inbox[d] \o sent'[d] ELSE <<>>]
    /\ UNCHANGED <<status, roomOrder, pending, nEvents, lastCode, joined, overtaken>>
    /\ UNCHANGED <<messages, clientLanguage, clientCode, isJoined, clientRoomId, output, langToRun, toast>>
    /\ UNCHANGED <<localStream, listenerStream, peerConnections, remoteStreams, offersMade, nClicks>>

\* a call listener of client c takes the next event, which is an `ev`
Takes(c, ev) ==
    /\ Up(c)
    /\ inbox[c] # <<>>
    /\ Head(inbox[c]).ev = ev
    /\ inbox' = [inbox EXCEPT ![c] = Tail(@)]
    /\ UNCHANGED <<hubVars, messages, clientLanguage, clientCode, isJoined, clientRoomId, output, langToRun, toast,
                 overtaken, localStream, listenerStream, nClicks>>

\* createPeerConnection: a new connection is stored under the peer's id, in
\* place of whatever was stored there; `made` counts the connections created
\* for the peer
CreatePeerConnection(pcs, other) ==
    [pcs EXCEPT ![other] = [made |-> @.made + 1, remote |-> FALSE, candidates |-> 0]]

\* onCallPeersList: without a stream or a room nothing; a connection and an
\* offer for every listed peer there is no connection to.  The offer is set
\* as the local description and never sent: the emit names a variable that
\* is not in scope, and throws.
OnCallPeersList(c) ==
    /\ Takes(c, "call-peers-list")
    /\ LET ids == Head(inbox[c]).peerIds
           new == IF listenerStream[c] /\ ClientRoom(c) # <<>>
                  THEN {p \in ids : peerConnections[c][p].made = 0}
                  ELSE {}
       IN  /\ peerConnections' = [peerConnections EXCEPT ![c] =
                 [p \in Conns |-> IF p \in new THEN CreatePeerConnection(@, p)[p] ELSE @[p]]]
           /\ offersMade' = [offersMade EXCEPT ![c] =
                 [p \in Conns |-> IF p \in new THEN @[p] + 1 ELSE @[p]]]
           /\ outbox' = [outbox EXCEPT ![c] =
                 @ \o [i \in 1..Len(InOrder(new)) |-> IceCandidate(c, InOrder(new)[i])]]
    /\ UNCHANGED remoteStreams

\* onUserJoinedCall: without a room, or with a connection to the peer,
\* nothing; else a connection, and with a stream an offer sent to the peer
OnUserJoinedCall(c) ==
    /\ Takes(c, "user-joined-call")
    /\ LET other == Head(inbox[c]).id
           skip == ClientRoom(c) = <<>> \/ peerConnections[c][other].made > 0
           offers == ~skip /\ listenerStream[c]
       IN  /\ peerConnections' = IF skip THEN peerConnections
                                 ELSE [peerConnections EXCEPT ![c] = CreatePeerConnection(@, other)]
           /\ offersMade' = IF offers THEN [offersMade EXCEPT ![c][other] = @ + 1] ELSE offersMade
           /\ outbox' = IF offers
                        THEN [outbox EXCEPT ![c] = @ \o
                                <<SignalTo("webrtc-offer", ClientRoom(c), other, Sdp(TRUE)),
                                  IceCandidate(c, other)>>]
                        ELSE outbox
    /\ UNCHANGED remoteStreams

\* onWebrtcOffer: without a room nothing; else a connection is created for
\* the sender whether or not there is one, the offer is its remote
\* description, and the answer is sent back
OnWebrtcOffer(c) ==
    /\ Takes(c, "webrtc-offer")
    /\ LET from == Head(inbox[c]).from
           offer == Head(inbox[c]).payload
       IN  IF ClientRoom(c) = <<>>
           THEN UNCHANGED <<peerConnections, remoteStreams, outbox>>
           ELSE /\ peerConnections' = [peerConnections EXCEPT ![c] =
                      [CreatePeerConnection(@, from) EXCEPT ![from].remote = TRUE]]
                /\ remoteStreams' = IF offer.tracks
                                    THEN [remoteStreams EXCEPT ![c] = @ \cup {from}]
                                    ELSE remoteStreams
                /\ outbox' = [outbox EXCEPT ![c] = @ \o
                                <<SignalTo("webrtc-answer", ClientRoom(c), from, Sdp(listenerStream[c])),
                                  IceCandidate(c, from)>>]
    /\ UNCHANGED offersMade

\* onWebrtcAnswer: without a connection to the sender nothing; else the
\* answer is its remote description (rejected by a connection that already
\* has one)
OnWebrtcAnswer(c) ==
    /\ Takes(c, "webrtc-answer")
    /\ LET from == Head(inbox[c]).from
           answer == Head(inbox[c]).payload
           pc == peerConnections[c][from]
       IN  IF pc.made = 0 \/ pc.remote
           THEN UNCHANGED <<peerConnections, remoteStreams>>
           ELSE /\ peerConnections' = [peerConnections EXCEPT ![c][from].remote = TRUE]
                /\ remoteStreams' = IF answer.tracks
                                    THEN [remoteStreams EXCEPT ![c] = @ \cup {from}]
                                    ELSE remoteStreams
    /\ UNCHANGED <<outbox, offersMade>>

\* addIceCandidate takes a well-formed candidate on a connection that has
\* its remote description, and throws otherwise
Accepts(pc, candidate) == pc.remote /\ candidate = "candidate"

\* onWebrtcIceCandidate without the try: a candidate that addIceCandidate
\* rejects takes the connection with it
OnWebrtcIceCandidateUncaught(c) ==
    /\ Takes(c, "webrtc-ice-candidate")
    /\ LET from == Head(inbox[c]).from
           pc == peerConnections[c][from]
       IN  /\ peerConnections' =
                 IF pc.made = 0 THEN peerConnections
                 ELSE IF Accepts(pc, Head(inbox[c]).payload)
                      THEN [peerConnections EXCEPT ![c][from].candidates = @ + 1]
                      ELSE [peerConnections EXCEPT ![c][from] = NoPc]
           /\ remoteStreams' =
                 IF pc.made = 0 \/ Accepts(pc, Head(inbox[c]).payload) THEN remoteStreams
                 ELSE [remoteStreams EXCEPT ![c] = @ \ {from}]
    /\ UNCHANGED <<outbox, offersMade>>

\* onWebrtcIceCandidate: without a connection to the sender nothing; else
\* the candidate is added, and a failure of addIceCandidate is caught
OnWebrtcIceCandidate(c) ==
    /\ Takes(c, "webrtc-ice-candidate")
    /\ LET from == Head(inbox[c]).from
           pc == peerConnections[c][from]
       IN  peerConnections' =
              IF pc.made > 0 /\ Accepts(pc, Head(inbox[c]).payload)
              THEN [peerConnections EXCEPT ![c][from].candidates = @ + 1]
              ELSE peerConnections
    /\ UNCHANGED <<remoteStreams, outbox, offersMade>>

\* onUserLeftCall that drops the connection and keeps the stream
OnUserLeftCallKeepsStream(c) ==
    /\ Takes(c, "user-left-call")
    /\ peerConnections' = [peerConnections EXCEPT ![c][Head(inbox[c]).id] = NoPc]
    /\ UNCHANGED <<remoteStreams, outbox, offersMade>>

\* onUserLeftCall: the connection to the peer is closed and dropped, and so
\* is its stream
OnUserLeftCall(c) ==
    /\ Takes(c, "user-left-call")
    /\ LET other == Head(inbox[c]).id
       IN  /\ peerConnections' = [peerConnections EXCEPT ![c][other] = NoPc]
           /\ remoteStreams' = [remoteStreams EXCEPT ![c] = @ \ {other}]
    /\ UNCHANGED <<outbox, offersMade>>

\* a client other than this application's sends a candidate that is not one
ForgedCandidate(c, to) ==
    /\ Up(c)
    /\ nClicks < MaxClicks
    /\ ClientRoom(c) # <<>>
    /\ outbox' = [outbox EXCEPT ![c] =
                    Append(@, SignalTo("webrtc-ice-candidate", ClientRoom(c), to, "garbage"))]
    /\ nClicks' = nClicks + 1
    /\ UNCHANGED <<hubVars, clientVars, overtaken, localStream, listenerStream, peerConnections, remoteStreams, offersMade>>

NextCall ==
    \/ \E c \in Conns : Rendered(StartCall(c))
    \/ \E c \in Conns : Rendered(LeaveCallClick(c))
    \/ \E c, to \in Conns : ForgedCandidate(c, to)
    \/ \E c \in Conns : HubTakes(c)
    \/ \E c \in Conns : OnCallPeersList(c)
    \/ \E c \in Conns : OnUserJoinedCall(c)
    \/ \E c \in Conns : OnWebrtcOffer(c)
    \/ \E c \in Conns : OnWebrtcAnswer(c)
    \/ \E c \in Conns : OnWebrtcIceCandidate(c)
    \/ \E c \in Conns : OnUserLeftCall(c)

SpecCall == InitRoom /\ [][NextCall]_vars

\* the call listener of client c that takes the next event of its queue
Listens(c) ==
    \/ OnCallPeersList(c)
    \/ OnUserJoinedCall(c)
    \/ OnWebrtcOffer(c)
    \/ OnWebrtcAnswer(c)
    \/ OnWebrtcIceCandidate(c)
    \/ OnUserLeftCall(c)

\* Call set-up with the effect as a step of its own: events can reach the
\* listeners of the render before
NextCallRace ==
    \/ \E c \in Conns : Unrendered(StartCall(c))
    \/ \E c \in Conns : Unrendered(LeaveCallClick(c))
    \/ \E c \in Conns : EffectRuns(c)
    \/ \E c \in Conns : HubTakes(c)
    \/ \E c \in Conns : Listens(c)

\* what is emitted is handled by the hub, what the hub sends is handled by
\* the listeners, and an effect that is due runs
SpecCallRace ==
    /\ InitRoom
    /\ [][NextCallRace]_vars
    /\ \A c \in Conns : WF_vars(EffectRuns(c)) /\ WF_vars(HubTakes(c)) /\ WF_vars(Listens(c))

----------------------------------------------------------------------------
(* Running the code: the Run button, the execution service, run-output *)

\* what the execution service can print
Outputs == {"1", "2"}

\* the panel after a run that failed
RunError == "Error: Run failed"

\* the Run button of a client that is in a room and has code: the panel is
\* cleared and the request to the execution service is on its way
RunStart(c) ==
    /\ Up(c)
    /\ nClicks < MaxClicks
    /\ ClientRoom(c) # <<>>
    /\ langToRun[c] = ""
    /\ langToRun' = [langToRun EXCEPT ![c] = clientLanguage[c]]
    /\ output' = [output EXCEPT ![c] = ""]
    /\ nClicks' = nClicks + 1
    /\ UNCHANGED <<hubVars, inbox, messages, clientLanguage, clientCode, isJoined, clientRoomId, toast, overtaken>>
    /\ UNCHANGED <<outbox, localStream, listenerStream, peerConnections, remoteStreams, offersMade>>

\* runCode, the execution service answered: the output is shown and sent to
\* the room
RunSucceeds(c, out) ==
    /\ Up(c)
    /\ langToRun[c] # ""
    /\ output' = [output EXCEPT ![c] = out]
    /\ outbox' = [outbox EXCEPT ![c] = Append(@,
                    [ev |-> "run-output", roomId |-> ClientRoom(c),
                     output |-> out, language |-> langToRun[c]])]
    /\ langToRun' = [langToRun EXCEPT ![c] = ""]
    /\ UNCHANGED <<hubVars, inbox, messages, clientLanguage, clientCode, isJoined, clientRoomId, toast, overtaken>>
    /\ UNCHANGED <<localStream, listenerStream, peerConnections, remoteStreams, offersMade, nClicks>>

\* runCode, the request failed: the error is shown, nothing is sent
RunFails(c) ==
    /\ Up(c)
    /\ langToRun[c] # ""
    /\ output' = [output EXCEPT ![c] = RunError]
    /\ langToRun' = [langToRun EXCEPT ![c] = ""]
    /\ UNCHANGED <<hubVars, inbox, messages, clientLanguage, clientCode, isJoined, clientRoomId, toast,
                 overtaken, callVars>>

NextRun ==
    \/ \E c \in Conns : RunStart(c)
    \/ \E c \in Conns, out \in Outputs : RunSucceeds(c, out)
    \/ \E c \in Conns : RunFails(c)
    \/ \E c \in Conns : HubTakes(c)
    \/ \E c \in Conns : Deliver(c)

SpecRun == InitRoom /\ [][NextRun]_vars

----------------------------------------------------------------------------
(* The join and create forms of the client *)

\* what can be typed into the name, room id and room name fields: strings as
\* sequences of characters
FormNames == {<<>>, <<" ">>, <<"a">>}
FormRoomIds == {<<>>, <<" ">>, <<"k", "7">>}
FormRoomNames == {<<>>, <<"\t", " ">>, <<"l">>}
\* the avatar chosen, "" when none is
Avatars == {"", "cat"}

Whitespace == {" ", "\t"}

\* String.prototype.trim
RECURSIVE Trim(_)
Trim(s) ==
    IF s = <<>> THEN s
    ELSE IF Head(s) \in Whitespace THEN Trim(Tail(s))
    ELSE IF s[Len(s)] \in Whitespace THEN Trim(SubSeq(s, 1, Len(s) - 1))
    ELSE s

\* the checks both forms make before they emit, in their order; "" when all pass
FormError(c, name, field, fieldError, avatar) ==
    IF Trim(name) = <<>> THEN "Enter your name!"
    ELSE IF Trim(field) = <<>> THEN fieldError
    ELSE IF avatar = "" THEN "Please choose an avatar!"
    ELSE IF ~Up(c) THEN "Not connected to server yet"
    ELSE ""

\* a press of a form's button: the error is shown, or `event` is emitted
Submit(c, error, event) ==
    /\ status[c] \in {"idle", "up"}
    /\ nClicks < MaxClicks
    /\ toast' = IF error # "" THEN [toast EXCEPT ![c] = error] ELSE toast
    /\ outbox' = IF error # "" THEN outbox ELSE [outbox EXCEPT ![c] = Append(@, event)]
    /\ nClicks' = nClicks + 1
    /\ UNCHANGED <<hubVars, inbox, messages, clientLanguage, clientCode, isJoined,
                 output, langToRun, overtaken>>
    /\ UNCHANGED <<localStream, listenerStream, peerConnections, remoteStreams, offersMade>>

\* joinRoom as it would be with `!userName` for `!userName.trim()`
JoinRoomClickNoTrim(c, userName, roomIdToJoin, avatar) ==
    Submit(c,
           IF userName = <<>> THEN "Enter your name!"
           ELSE FormError(c, <<"a">>, roomIdToJoin, "Room ID is required!", avatar),
           [ev |-> "join-room", roomId |-> ToUpper(roomIdToJoin), userName |-> userName,
            avatar |-> avatar])
    /\ UNCHANGED clientRoomId

\* joinRoom: with the checks passed, setRoomId and the emit
JoinRoomClick(c, userName, roomIdToJoin, avatar) ==
    /\ Submit(c, FormError(c, userName, roomIdToJoin, "Room ID is required!", avatar),
              [ev |-> "join-room", roomId |-> ToUpper(roomIdToJoin), userName |-> userName,
               avatar |-> avatar])
    /\ clientRoomId' =
          IF FormError(c, userName, roomIdToJoin, "Room ID is required!", avatar) = ""
          THEN [clientRoomId EXCEPT ![c] = ToUpper(roomIdToJoin)]
          ELSE clientRoomId

\* handleCreateRoom
CreateRoomClick(c, userName, roomNameForCreation, avatar) ==
    Submit(c, FormError(c, userName, roomNameForCreation, "Enter a room name!", avatar),
           [ev |-> "create-room", roomName |-> roomNameForCreation, userName |-> userName,
            avatar |-> avatar])
    /\ UNCHANGED clientRoomId

NextForm ==
    \/ \E c \in Conns : Hub(Connect(c))
    \/ \E c \in Conns, u \in FormNames, r \in FormRoomIds, a \in Avatars :
            JoinRoomClick(c, u, r, a)
    \/ \E c \in Conns, u \in FormNames, n \in FormRoomNames, a \in Avatars :
            CreateRoomClick(c, u, n, a)

SpecForm == Init /\ [][NextForm]_vars

----------------------------------------------------------------------------
(* Requests that carry an avatar *)

\* create-room { roomName, userName, avatar }: the listener takes roomName
\* and userName from the payload and nothing else
CreateRoomWithAvatar(c, roomName, userName, avatar, token) ==
    OnCreateRoom(c, roomName, userName, token)

\* join-room { roomId, userName, avatar }: roomId and userName are taken
JoinRoomWithAvatar(c, roomId, userName, avatar) == OnJoinRoom(c, roomId, userName)

\* chat-message { roomId, message, userName, avatar }: roomId, message and
\* userName are taken
ChatMessageWithAvatar(c, roomId, message, userName, avatar) ==
    OnChatMessage(c, roomId, message, userName)

NextAvatar ==
    \/ \E c \in Conns : Hub(Connect(c))
    \/ \E c \in Conns, n \in RoomNames, u \in Names, a \in Avatars, t \in RandomTokens :
            Hub(CreateRoomWithAvatar(c, n, u, a, t))
    \/ \E p \in pending : Hub(CreateRoomResolved(p))
    \/ \E p \in pending : Hub(CreateRoomRejected(p))
    \/ \E c \in Conns, r \in PayloadIds, u \in Names, a \in Avatars :
            Hub(JoinRoomWithAvatar(c, r, u, a))
    \/ \E c \in Conns, r \in PayloadIds, m \in ChatTexts, u \in Names, a \in Avatars :
            Hub(ChatMessageWithAvatar(c, r, m, u, a))

SpecAvatar == Init /\ [][NextAvatar]_vars

----------------------------------------------------------------------------
(* The shared document (App.tsx Editor onChange, joinRoom; server.ts) *)

\* what the client emits for an edit, a join and a language selection
CodeChange(rid, code, userId) ==
    [ev |-> "code-change", roomId |-> rid, code |-> code, userId |-> userId]
JoinRoom(rid, userName) == [ev |-> "join-room", roomId |-> rid, userName |-> userName]

\* Editor onChange, in the editor a joined client sees: safeSetCode(value),
\* then code-change with the client's own socket id when there is a room id
\* and the socket is connected
Edit(c, value) ==
    /\ status[c] \in {"idle", "up"}
    /\ isJoined[c]
    /\ nClicks < MaxClicks
    /\ clientCode' = [clientCode EXCEPT ![c] = value]
    /\ outbox' = IF clientRoomId[c] # <<>> /\ Up(c)
                 THEN [outbox EXCEPT ![c] = Append(@, CodeChange(clientRoomId[c], value, c))]
                 ELSE outbox
    /\ nClicks' = nClicks + 1
    /\ UNCHANGED <<hubVars, inbox, messages, clientLanguage, isJoined, clientRoomId,
                   output, langToRun, toast, overtaken>>
    /\ UNCHANGED <<localStream, listenerStream, peerConnections, remoteStreams, offersMade>>

\* joinRoom in the form a client that is not joined sees, with a name, a room
\* id and an avatar filled in and the socket connected: setRoomId(rid),
\* setCurrentUser(userName), then join-room
JoinRoomSubmit(c, roomIdToJoin, userName) ==
    /\ Up(c)
    /\ ~isJoined[c]
    /\ nClicks < MaxClicks
    /\ clientRoomId' = [clientRoomId EXCEPT ![c] = ToUpper(roomIdToJoin)]
    /\ outbox' = [outbox EXCEPT ![c] = Append(@, JoinRoom(ToUpper(roomIdToJoin), userName))]
    /\ nClicks' = nClicks + 1
    /\ UNCHANGED <<hubVars, inbox, messages, clientLanguage, clientCode, isJoined,
                   output, langToRun, toast, overtaken>>
    /\ UNCHANGED <<localStream, listenerStream, peerConnections, remoteStreams, offersMade>>

\* the hub's listener of the next event a client emitted runs: code-change or
\* join-room
HubListens(c) ==
    /\ outbox[c] # <<>>
    /\ Head(outbox[c]).ev \in {"code-change", "join-room"}
    /\ IF Head(outbox[c]).ev = "code-change"
       THEN OnCodeChange(c, Head(outbox[c]).roomId, Head(outbox[c]).code, Head(outbox[c]).userId)
       ELSE OnJoinRoom(c, Head(outbox[c]).roomId, Head(outbox[c]).userName)
    /\ outbox' = [outbox EXCEPT ![c] = Tail(@)]
    /\ inbox' = [d \in Conns |-> IF Up(d) THEN inbox[d] \o sent'[d] ELSE <<>>]
    /\ UNCHANGED <<messages, clientLanguage, clientCode, isJoined, clientRoomId,
                   output, langToRun, toast, overtaken>>
    /\ UNCHANGED <<localStream, listenerStream, peerConnections, remoteStreams, offersMade, nClicks>>

\* Document: two members who edit and select languages, and a newcomer
NextDoc ==
    \/ \E c \in Conns : Net(Connect(c))
    \/ \E c \in Conns, k \in Codes : Edit(c, k)
    \/ \E c \in Conns, r \in RoomKeys, l \in Languages : SelectLanguage(c, r, l)
    \/ \E c \in Conns, r \in PayloadIds, u \in Names : JoinRoomSubmit(c, r, u)
    \/ \E c \in Conns : HubListens(c)
    \/ \E c \in Conns : Deliver(c)

SpecDoc == InitRoom /\ [][NextDoc]_vars

----------------------------------------------------------------------------
(* A transport that drops and comes back (App.tsx io(...), onDisconnect) *)

\* the socket of the client that was connection c reconnects by itself
\* (reconnection: true) and is given the new id d by the hub; the listener of
\* 'disconnect' only logged, so what the client holds it holds under the new
\* id: the room id, whether it is joined, the editor, the chat
Reconnects(c, d) ==
    /\ status[c] = "down"
    /\ Connect(d)
    /\ inbox' = [inbox EXCEPT ![d] = <<>>]
    /\ messages' = [messages EXCEPT ![d] = messages[c], ![c] = <<>>]
    /\ clientLanguage' = [clientLanguage EXCEPT ![d] = clientLanguage[c], ![c] = ClientLanguage]
    /\ clientCode' = [clientCode EXCEPT ![d] = clientCode[c], ![c] = ""]
    /\ isJoined' = [isJoined EXCEPT ![d] = isJoined[c], ![c] = FALSE]
    /\ clientRoomId' = [clientRoomId EXCEPT ![d] = clientRoomId[c], ![c] = <<>>]
    /\ output' = [output EXCEPT ![d] = output[c], ![c] = ""]
    /\ langToRun' = [langToRun EXCEPT ![d] = langToRun[c], ![c] = ""]
    /\ toast' = [toast EXCEPT ![d] = toast[c], ![c] = ""]
    /\ UNCHANGED <<callVars, overtaken>>

\* Reconnect: members and newcomers who join, edit, lose their transport and
\* get it back
NextReconnect ==
    \/ \E c \in Conns : Net(Connect(c))
    \/ \E c \in Conns, r \in PayloadIds, u \in Names : JoinRoomSubmit(c, r, u)
    \/ \E c \in Conns, k \in Codes : Edit(c, k)
    \/ \E c \in Conns : HubListens(c)
    \/ \E c \in Conns : Deliver(c)
    \/ \E c \in Conns : Net(OnDisconnect(c))
    \/ \E c, d \in Conns : Reconnects(c, d)

SpecReconnect == InitRoom /\ [][NextReconnect]_vars

----------------------------------------------------------------------------
(* Requests whose payload lacks a field *)

\* what destructuring gives for a field the payload does not have
Undefined == "undefined"

\* join-room with a payload that has no roomId: roomId.toUpperCase() throws a
\* TypeError inside the listener, nothing catches it, and the process exits
\* with every connection and the whole registry
OnJoinRoomNoRoomId(c) ==
    /\ Up(c) /\ Budget /\ Count
    /\ status' = [d \in Conns |-> "down"]
    /\ rooms' = <<>>
    /\ roomOrder' = <<>>
    /\ pending' = {}
    /\ sent' = NoEvents
    /\ joined' = [r \in RoomKeys |-> {}]
    /\ UNCHANGED lastCode

NextBadInput ==
    \/ \E c \in Conns : Hub(Connect(c))
    \/ \E c \in Conns, n \in RoomNames \cup {Undefined}, u \in Names, t \in RandomTokens :
            Hub(OnCreateRoom(c, n, u, t))
    \/ \E p \in pending : Hub(CreateRoomResolved(p))
    \/ \E p \in pending : Hub(CreateRoomRejected(p))
    \/ \E c \in Conns, r \in PayloadIds, u \in Names \cup {Undefined} : Hub(OnJoinRoom(c, r, u))
    \/ \E c \in Conns : Hub(OnJoinRoomNoRoomId(c))
    \/ \E c \in Conns, r \in PayloadIds, k \in Codes, u \in Conns : Hub(OnCodeChange(c, r, k, u))
    \/ \E c \in Conns : Hub(OnDisconnect(c))

SpecBadInput == Init /\ [][NextBadInput]_vars

----------------------------------------------------------------------------
(* Notions the properties share *)

\* the members of the room kept under rid in registry rs; none when there is no such room
MembersOf(rs, rid) == IF HasRoom(rs, rid) THEN Members(rs[rid]) ELSE {}

\* how many times msg occurs in the sequence s
Occurrences(s, msg) == Cardinality({i \in 1..Len(s) : s[i] = msg})

\* the handlers of connection c have all finished
NoHandlerRunning(c) == \A p \in pending : p.conn # c

----------------------------------------------------------------------------
(* C1 - C10 *)

\* C1: a code-change sent by a member A of room R is delivered, as one
\* code-update carrying its code, to every other (connected) member of R,
\* and nothing is delivered to A.
C1_CodeUpdateToOthersOnly ==
    [][\A c \in Conns, r \in RoomKeys, k \in Codes, u \in Conns :
         (c \in MembersOf(rooms, r) /\ OnCodeChange(c, r, k, u))
         => /\ sent'[c] = <<>>
            /\ \A m \in MembersOf(rooms, r) \ {c} :
                 Up(m) => /\ Len(sent'[m]) = 1
                          /\ sent'[m][1].ev = "code-update"
                          /\ sent'[m][1].code = k]_vars

\* C2: a room's stored document is the code of the code-change handled last
\* for that room: a full replace, never a mix of two payloads.
C2_LastWriterWins ==
    \A r \in DOMAIN rooms :
        lastCode[r].code # NoCode => rooms[r].code = lastCode[r].code

\* C2, its case: a second code-change has replaced the code of an earlier one
C2_Witness ==
    \E r \in DOMAIN rooms :
        /\ lastCode[r].prev # NoCode
        /\ lastCode[r].prev # lastCode[r].code
        /\ rooms[r].code = lastCode[r].code

C4_JoinUnknownRoom ==
    [][\A c \in Conns, r \in PayloadIds, u \in Names :
         (~HasRoom(rooms, ToUpper(r)) /\ OnJoinRoom(c, r, u))
         => /\ rooms' = rooms
            /\ roomOrder' = roomOrder
            /\ sent'[c] = <<JoinError(RoomNotFound)>>
            /\ \A d \in Conns \ {c} : sent'[d] = <<>>]_vars

\* C4, its case: a join for an id that names no room was answered while
\* another room exists
C4_Witness ==
    \E c \in Conns :
        /\ sent[c] = <<JoinError(RoomNotFound)>>
        /\ DOMAIN rooms # {}
        /\ DOMAIN rooms # RoomKeys

\* C5: a connection is a participant of at most one room.
C5_AtMostOneRoom ==
    \A c \in Conns : Cardinality({r \in DOMAIN rooms : c \in Members(rooms[r])}) <= 1

\* C6: a connection that has disconnected, and whose handlers have all
\* finished, is in no room's users.
C6_DisconnectedInNoRoom ==
    \A c \in Conns :
        (status[c] = "down" /\ NoHandlerRunning(c))
        => \A r \in DOMAIN rooms : c \notin Members(rooms[r])

\* C7: when a connection that is in a room's call disconnects, it leaves the
\* room's users and the call's peers, and every peer that remains in the call
\* is sent exactly one user-left-call naming it.
C7_DisconnectLeavesCall ==
    [][\A c \in Conns, r \in RoomKeys :
         (HasRoom(rooms, r) /\ c \in rooms[r].peers /\ OnDisconnect(c))
         => /\ c \notin Members(rooms'[r])
            /\ c \notin rooms'[r].peers
            /\ \A p \in rooms[r].peers \ {c} :
                 Up(p) => Occurrences(sent'[p], UserLeftCall(c)) = 1]_vars

\* C8: in every room the call's peers are members of the room.
C8_PeersAreMembers ==
    \A r \in DOMAIN rooms : rooms[r].peers \subseteq Members(rooms[r])

\* C9: when the room-catalog write of a create-room fails, the room is in
\* the registry all the same, with the caller as its participant.
C9_RoomUsableAfterFailedWrite ==
    [][\A p \in pending :
         CreateRoomRejected(p)
         => /\ HasRoom(rooms', p.roomId)
            /\ p.conn \in Members(rooms'[p.roomId])]_vars

\* C10: when the room-catalog write of a create-room fails, the caller is
\* sent a join-error and the registry is left as it was: no room appears,
\* and no room's users, code or language changes.
C10_FailedWriteLeavesRegistry ==
    [][\A p \in pending :
         CreateRoomRejected(p)
         => /\ rooms' = rooms
            /\ roomOrder' = roomOrder
            /\ Up(p.conn) => sent'[p.conn] = <<JoinError(CreateFailed)>>
            /\ \A d \in Conns \ {p.conn} : sent'[d] = <<>>]_vars

\* C10, its case: a create-room has failed while a room with a member exists
C10_Witness ==
    \E c \in Conns, r \in DOMAIN rooms :
        /\ sent[c] = <<JoinError(CreateFailed)>>
        /\ Members(rooms[r]) # {}

----------------------------------------------------------------------------
(* C11 - C20 *)

\* C11: a create-room whose room-catalog write succeeded, from a caller that
\* is still connected, puts a room that was not there before into the
\* registry with the caller as its only participant, and sends the caller
\* one room-created carrying the new id and a users list of exactly the
\* caller.
C11_CreateMakesFreshRoom ==
    [][\A p \in pending :
         (Up(p.conn) /\ CreateRoomResolved(p))
         => /\ ~HasRoom(rooms, p.roomId)
            /\ HasRoom(rooms', p.roomId)
            /\ rooms'[p.roomId].users = <<[socketId |-> p.conn, userName |-> p.userName]>>
            /\ Occurrences(sent'[p.conn], RoomCreated(p.roomId, rooms'[p.roomId].users)) = 1]_vars

\* C12: a create-room whose generated id is the id of a room already in the
\* registry leaves that room as it was: the caller is not added to it and
\* its users, code and language are not replaced.
C12_NoReuseOfRoomId ==
    [][\A p \in pending :
         (HasRoom(rooms, p.roomId) /\ CreateRoomResolved(p))
         => rooms'[p.roomId] = rooms[p.roomId]]_vars

\* C13: an inbound event acts on the room kept under the uppercase form of
\* the roomId it carries: a code-change or language-change whose roomId, in
\* whatever letter case, names an existing room writes that room, as a
\* join-room with the same roomId joins it; and no room is ever kept under a
\* key that is not uppercase.
C13_LookupUnderUppercaseId ==
    [][/\ \A key \in DOMAIN rooms' : key = ToUpper(key)
       /\ \A c \in Conns, r \in PayloadIds \ {<<>>} :
            HasRoom(rooms, ToUpper(r))
            => /\ \A u \in Names :
                    OnJoinRoom(c, r, u) => c \in Members(rooms'[ToUpper(r)])
               /\ \A k \in Codes, u \in Conns :
                    OnCodeChange(c, r, k, u) => rooms'[ToUpper(r)].code = k
               /\ \A l \in Languages :
                    OnLanguageChange(c, r, l) => rooms'[ToUpper(r)].language = l]_vars

\* C14: a join-room from a connection that is already in the users of the
\* room it names leaves the room with as many users as before, lists the
\* connection once, and lists it under the name this join carried.
C14_RejoinListsOnce ==
    [][\A c \in Conns, r \in PayloadIds, u \in JoinNames :
         (/\ HasRoom(rooms, ToUpper(r))
          /\ c \in Members(rooms[ToUpper(r)])
          /\ OnJoinRoom(c, r, u))
         => LET us == rooms'[ToUpper(r)].users
            IN  /\ Len(us) = Len(rooms[ToUpper(r)].users)
                /\ Cardinality({i \in 1..Len(us) : us[i].socketId = c}) = 1
                /\ \A i \in 1..Len(us) : us[i].socketId = c => us[i].userName = u
                /\ \A i \in 1..Len(us) :
                     us[i].socketId # c => us[i] = rooms[ToUpper(r)].users[i]]_vars

\* C14, its case: with nobody gone, the only user of a room has just been
\* answered join-success: it created the room as ann and joined it again as bob
C14_Witness ==
    \E r \in DOMAIN rooms, c \in Conns :
        /\ \A d \in Conns : status[d] # "down"
        /\ rooms[r].users = <<[socketId |-> c, userName |-> "bob"]>>
        /\ sent[c] = <<UsersUpdate(rooms[r].users), JoinSuccess>>
        /\ \A p \in pending : p.userName = "ann"
        /\ nEvents = 2

\* C15: a room in the registry is in the registry after every step, with a
\* code and a language, whoever disconnects; and a join-room for its id puts
\* the requester into its users and answers join-success.
C15_RoomsAreKept ==
    [][\A r \in DOMAIN rooms :
         /\ r \in DOMAIN rooms'
         /\ rooms'[r].code \in Codes \cup {DefaultCode}
         /\ rooms'[r].language \in Languages \cup {DefaultLanguage}
         /\ \A c \in Conns, u \in Names :
              OnJoinRoom(c, r, u)
              => /\ c \in Members(rooms'[r])
                 /\ sent'[c] = <<UsersUpdate(rooms'[r].users), JoinSuccess>>]_vars

\* C15, its case: the last participant of a room has disconnected; the room
\* is there, empty, with the code written while it had a participant
C15_Witness ==
    \E r \in DOMAIN rooms, d \in Conns :
        /\ status[d] = "down"
        /\ rooms[r].users = <<>>
        /\ rooms[r].code \in Codes
        /\ rooms[r].language = DefaultLanguage

\* C16: while a create-room is at its room-catalog write and no room is yet
\* kept under its id, a join-room for that id is answered with join-error
\* (room not found) and changes neither the registry nor the create-room in
\* progress; a join-room for the id of a room that is in the registry, as it
\* is once the create-room has completed, is answered with join-success.
C16_JoinRacingCreate ==
    [][\A c \in Conns, u \in Names :
         /\ \A p \in pending :
              (~HasRoom(rooms, p.roomId) /\ OnJoinRoom(c, p.roomId, u))
              => /\ sent'[c] = <<JoinError(RoomNotFound)>>
                 /\ rooms' = rooms
                 /\ roomOrder' = roomOrder
                 /\ pending' = pending
         /\ \A r \in RoomKeys :
              (HasRoom(rooms, r) /\ OnJoinRoom(c, r, u))
              => /\ JoinSuccess \in Range(sent'[c])
                 /\ c \in Members(rooms'[r])]_vars

\* C16, its case: while a create-room is at its room-catalog write and the
\* registry is empty, another connection's join-room was answered room not found
C16_Witness ==
    \E p \in pending, c \in Conns :
        /\ c # p.conn
        /\ rooms = <<>>
        /\ sent[c] = <<JoinError(RoomNotFound)>>

\* the message ids in a sequence of events
MessageIds(s) == {s[i].id : i \in {j \in 1..Len(s) : s[j].ev = "new-message"}}

\* C17: a chat-message handled for an existing room is sent, as one
\* new-message, to every connected member of the room, the sender included,
\* and to nobody else; its id is not the id of a message a recipient already
\* holds or is about to receive; and no client's chat history ever holds
\* the same id twice.
C17_ChatExactlyOnce ==
    [][/\ \A c \in Conns, r \in RoomKeys, t \in ChatTexts, u \in Names :
            (HasRoom(rooms, r) /\ OnChatMessage(c, r, t, u))
            => \A m \in Conns :
                 IF m \in Members(rooms[r]) /\ Up(m)
                 THEN /\ Len(sent'[m]) = 1
                      /\ sent'[m][1].ev = "new-message"
                      /\ sent'[m][1].message = t
                      /\ sent'[m][1].userId = c
                      /\ sent'[m][1].id \notin MessageIds(messages[m] \o inbox[m])
                      /\ inbox'[m] = Append(inbox[m], sent'[m][1])
                 ELSE sent'[m] = <<>>
       /\ \A m \in Conns :
            Cardinality(MessageIds(messages'[m])) = Len(messages'[m])]_vars

\* C17, its case: two members have each sent a message before either was
\* handled by a client, and every member's history holds both, once each
C17_Witness ==
    \E r \in DOMAIN rooms :
        /\ Cardinality(Members(rooms[r])) >= 2
        /\ \A m \in Members(rooms[r]) :
             /\ Len(messages[m]) = 2
             /\ messages[m][1].userId # messages[m][2].userId
             /\ {messages[m][1].userId, messages[m][2].userId} \subseteq Members(rooms[r])
             /\ inbox[m] = <<>>

\* C18: the broadcasts of one room reach a recipient in the order in which
\* the hub received the events that caused them: when a create-room emits,
\* no recipient of its users-update has already been sent a broadcast of the
\* same room that an event received after that create-room caused.
C18_BroadcastsInArrivalOrder ==
    [][\A p \in pending, c \in Conns :
         (CreateRoomResolved(p) /\ GotBroadcast(sent', c)) => <<p, c>> \notin overtaken]_vars

\* C19: once a room's language has been changed and every connected member
\* has handled all it was sent, the editor language of every connected
\* member is the room's stored language, which is the language of the
\* language-change handled last.
C19_LanguageConverges ==
    \A r \in DOMAIN rooms :
        (/\ rooms[r].language \in Languages
         /\ \A m \in Members(rooms[r]) : Up(m) => inbox[m] = <<>>)
        => \A m \in Members(rooms[r]) : Up(m) => clientLanguage[m] = rooms[r].language

\* C20: a webrtc-offer, webrtc-answer or webrtc-ice-candidate naming an
\* existing room and a target `to` changes nothing in the registry; when
\* `to` is a connected member of the room it is sent, once, to `to` and to
\* no other connection; when `to` is not in the room it is sent to nobody.
C20_SignalToTargetOnly ==
    [][\A c \in Conns, k \in SignalKinds, r \in RoomKeys, to \in Conns, y \in SignalPayloads :
         (HasRoom(rooms, r) /\ OnWebrtcSignal(c, k, r, to, y))
         => /\ rooms' = rooms
            /\ roomOrder' = roomOrder
            /\ status' = status
            /\ \A d \in Conns \ {to} : sent'[d] = <<>>
            /\ sent'[to] = IF to \in Members(rooms[r]) /\ Up(to)
                           THEN <<Signal(k, c, y)>>
                           ELSE <<>>]_vars

\* C20, its case: in a room of three, one member's answer was sent to the
\* member it names and to neither of the others
C20_Witness ==
    \E r \in DOMAIN rooms, c \in Conns, to \in Conns :
        /\ Cardinality(Members(rooms[r])) = 3
        /\ c # to
        /\ sent[to] = <<Signal("webrtc-answer", c, "sdp-1")>>
        /\ \A d \in Conns \ {to} : sent[d] = <<>>

----------------------------------------------------------------------------
(* C21 - C30 *)

\* C21: the hub answers get-call-peers to the requester alone, with the
\* connections that are in the room's call at that moment, the requester
\* left out; so a client that started a call alone is sent the empty list,
\* and no client ever has a peer connection to its own id.
C21_PeersListToRequester ==
    /\ [][\A c \in Conns :
            (HubTakes(c) /\ Head(outbox[c]).ev = "get-call-peers") =>
                LET rid == Head(outbox[c]).roomId
                IN  /\ sent'[c] = <<CallPeersList(rooms[rid].peers \ {c})>>
                    /\ \A d \in Conns \ {c} : sent'[d] = <<>>
                    /\ rooms[rid].peers = {c} => sent'[c][1].peerIds = {}]_vars
    /\ [](\A c \in Conns :
            /\ peerConnections[c][c] = NoPc
            /\ \A i \in 1..Len(inbox[c]) :
                  inbox[c][i].ev = "call-peers-list" => c \notin inbox[c][i].peerIds)

\* a client alone in the call has handled its (empty) list and holds no
\* peer connection at all
C21_Witness ==
    \E c \in Conns :
        /\ rooms[<<"K", "7">>].peers = {c}
        /\ localStream[c]
        /\ nClicks = 1
        /\ outbox[c] = <<>>
        /\ inbox[c] = <<>>
        /\ \A p \in Conns : peerConnections[c][p] = NoPc

\* every event the hub and the clients have emitted has been handled
Quiet == \A c \in Conns : inbox[c] = <<>> /\ outbox[c] = <<>>

\* C22: between two connections that are both in a room's call exactly one
\* offer is created: never more than one, and one once every event has been
\* handled.
C22_OneOfferPerPair ==
    \A r \in DOMAIN rooms : \A a, b \in rooms[r].peers :
        (a # b /\ localStream[a] /\ localStream[b]) =>
            /\ offersMade[a][b] + offersMade[b][a] <= 1
            /\ Quiet => offersMade[a][b] + offersMade[b][a] = 1

\* C23: a client that has a peer connection to P keeps that one: no handler
\* creates another for P in its place (it is only ever closed and dropped);
\* and once two clients in the call have handled every event each holds a
\* connection made once and one remote stream for the other.
C23_OneConnectionPerPeer ==
    /\ [][\A c, p \in Conns :
            peerConnections[c][p].made > 0 =>
                peerConnections'[c][p].made \in {0, peerConnections[c][p].made}]_vars
    /\ [](\A r \in DOMAIN rooms : \A a, b \in rooms[r].peers :
            (a # b /\ localStream[a] /\ localStream[b] /\ Quiet) =>
                /\ peerConnections[a][b].made = 1
                /\ b \in remoteStreams[a])

\* C24: when the hub handles leave-call from C, C is taken out of the room's
\* call peers and user-left-call naming C is sent to each peer that remains
\* and to nobody else; a client that handles user-left-call for C then has no
\* peer connection and no remote stream for C.
C24_LeaveCallTearsDown ==
    [][\A c \in Conns :
          /\ (HubTakes(c) /\ Head(outbox[c]).ev = "leave-call") =>
                LET rid == Head(outbox[c]).roomId
                IN  /\ rooms'[rid].peers = rooms[rid].peers \ {c}
                    /\ \A d \in Conns :
                          sent'[d] = IF d \in rooms[rid].peers \ {c}
                                     THEN <<UserLeftCall(c)>>
                                     ELSE <<>>
          /\ \A d \in Conns :
                (OnUserLeftCall(d) /\ Head(inbox[d]).id = c) =>
                    /\ peerConnections'[d][c] = NoPc
                    /\ c \notin remoteStreams'[d]]_vars

\* C left a call it was in with D, and D, still in the call, has handled
\* user-left-call: nothing of C is left at D
C24_Witness ==
    \E c, d \in Conns :
        /\ c # d
        /\ rooms[<<"K", "7">>].peers = {d}
        /\ sent[d] = <<UserLeftCall(c)>>
        /\ localStream[d] /\ ~localStream[c]
        /\ Quiet
        /\ peerConnections[d][c] = NoPc
        /\ c \notin remoteStreams[d]

Reconciled(rs, c) == LeaveAll([rooms |-> rs, box |-> NoEvents], roomOrder, c)

\* C25: disconnect reconciliation is idempotent.  Handling the disconnect of
\* a connection that is in no room changes no room and emits nothing; and in
\* every state, for every connection, reconciling it a second time changes
\* nothing that the first left and emits nothing.
C25_ReconcileIdempotent ==
    /\ [][\A c \in Conns :
            (OnDisconnect(c) /\ \A r \in DOMAIN rooms : c \notin Members(rooms[r])) =>
                /\ rooms' = rooms
                /\ roomOrder' = roomOrder
                /\ sent' = NoEvents]_vars
    /\ [](\A c \in Conns :
            LET once == Reconciled(rooms, c)
                twice == Reconciled(once.rooms, c)
            IN  /\ twice.rooms = once.rooms
                /\ twice.box = NoEvents)

\* a connection that never was in a room has disconnected while another
\* connection sits in its room
C25_Witness ==
    \E c, d \in Conns :
        /\ c # d
        /\ status[c] = "down" /\ status[d] = "up"
        /\ nEvents = 2
        /\ \E r \in DOMAIN rooms : Members(rooms[r]) = {d}
        /\ sent = NoEvents

\* the request of connection c is rejected and nothing else happens: one
\* join-error with a message to c, no room changed, no connection ended
RejectedAlone(c) ==
    /\ Len(sent'[c]) = 1
    /\ sent'[c][1].ev = "join-error"
    /\ sent'[c][1].message # ""
    /\ rooms' = rooms
    /\ roomOrder' = roomOrder
    /\ status' = status

\* C26: a join-room whose payload lacks roomId or userName, and a create-room
\* whose payload lacks roomName, is rejected for that request alone: the
\* sender gets a failure event with a message, no room changes, and every
\* connection stays up.
C26_MalformedRejected ==
    [][\A c \in Conns :
          /\ OnJoinRoomNoRoomId(c) => RejectedAlone(c)
          /\ \A r \in PayloadIds : OnJoinRoom(c, r, Undefined) => RejectedAlone(c)
          /\ \A p \in pending :
                (/\ p.conn = c
                 /\ p.name = Undefined
                 /\ CreateRoomResolved(p) \/ CreateRoomRejected(p)) => RejectedAlone(c)]_vars

\* an event of connection c that concerns the rooms Rs: every other room is
\* there as it was, and whoever else is sent something is a member of one
\* of Rs
Frame(c, Rs) ==
    /\ \A r \in DOMAIN rooms \ Rs : r \in DOMAIN rooms' /\ rooms'[r] = rooms[r]
    /\ \A d \in Conns \ {c} :
          sent'[d] # <<>> =>
              \E r \in Rs : \/ r \in DOMAIN rooms /\ d \in Members(rooms[r])
                            \/ r \in DOMAIN rooms' /\ d \in Members(rooms'[r])

\* C27: an event or a failure on one connection that concerns room R leaves
\* every other room as it was and reaches no connection outside R: join-room
\* and code-change concern the room their payload names, the outcome of a
\* create-room the room it was to make, a disconnect the rooms the
\* connection is in, and a join-room that names no room concerns none.
C27_OtherRoomsUntouched ==
    [][\A c \in Conns :
          /\ \A r \in PayloadIds, u \in Names \cup {Undefined} :
                OnJoinRoom(c, r, u) => Frame(c, {ToUpper(r)})
          /\ \A r \in PayloadIds, k \in Codes, u \in Conns :
                OnCodeChange(c, r, k, u) => Frame(c, {r})
          /\ \A p \in pending :
                (p.conn = c /\ (CreateRoomResolved(p) \/ CreateRoomRejected(p))) =>
                    Frame(c, {p.roomId})
          /\ OnDisconnect(c) => Frame(c, {r \in DOMAIN rooms : c \in Members(rooms[r])})
          /\ OnJoinRoomNoRoomId(c) => Frame(c, {})]_vars

\* C28: the hub relays a member's run-output to every member of the room with
\* the output and the language it came with; and once every event has been
\* handled and no run is in progress, every member of the room shows the
\* output of the run-output the hub handled last for it.
C28_RunOutputShared ==
    /\ [][\A c \in Conns :
            (/\ HubTakes(c)
             /\ Head(outbox[c]).ev = "run-output"
             /\ c \in Members(rooms[Head(outbox[c]).roomId])) =>
                \A d \in Conns :
                    sent'[d] = IF d \in Members(rooms[Head(outbox[c]).roomId])
                               THEN <<RunOutput(Head(outbox[c]).output,
                                                Head(outbox[c]).language)>>
                               ELSE <<>>]_vars
    /\ [](\A r \in DOMAIN rooms : \A m, d \in Members(rooms[r]) :
            (/\ Quiet
             /\ \A c \in Conns : langToRun[c] = ""
             /\ sent[m] # <<>> /\ sent[m][1].ev = "run-output") =>
                output[d] = sent[m][1].output)

\* a string that is empty or made of whitespace only
Blank(s) == \A i \in 1..Len(s) : s[i] \in Whitespace

----------------------------------------------------------------------------
(* C31 - C38 *)

\* C35: whatever userId the payload of a code-change carries, the connections
\* that are sent the code-update are the members of the room other than the
\* connection that sent the code-change: the sender is sent nothing, and the
\* member the payload names is sent the update as every other member is.
C35_SenderExcluded ==
    [][\A c \in Conns, r \in RoomKeys, k \in Codes, u \in Conns :
          (c \in MembersOf(rooms, r) /\ u # c /\ OnCodeChange(c, r, k, u)) =>
              {d \in Conns : sent'[d] # <<>>} = {m \in MembersOf(rooms, r) \ {c} : Up(m)}]_vars

\* every entry of a membership list has an avatar
ListedWithAvatar(list) == \A i \in 1..Len(list) : "avatar" \in DOMAIN list[i]

\* C31: the avatar supplied with create-room or join-room is kept with the
\* participant and is in its entry of the lists of room-created and
\* users-update, and the avatar supplied with a chat-message is in the
\* new-message the members are sent.
C31_AvatarCarried ==
    [][/\ \A c \in Conns : \A i \in 1..Len(sent'[c]) :
             sent'[c][i].ev \in {"room-created", "users-update"} =>
                 ListedWithAvatar(sent'[c][i].users)
       /\ \A r \in DOMAIN rooms' : ListedWithAvatar(rooms'[r].users)
       /\ \A c \in Conns, r \in RoomKeys, m \in ChatTexts, u \in Names, a \in Avatars \ {""} :
             (c \in MembersOf(rooms, r) /\ ChatMessageWithAvatar(c, r, m, u, a)) =>
                 \A d \in MembersOf(rooms, r) :
                     Up(d) => /\ "avatar" \in DOMAIN sent'[d][1]
                              /\ sent'[d][1].avatar = a]_vars

\* C32: once the members have stopped editing and every event in flight has
\* been handled, every member's local document is the room's stored document,
\* in a room nobody has joined since it was first edited
C32_DocumentConverges ==
    \A r \in DOMAIN rooms :
        (Quiet /\ joined[r] = {"c1", "c2"}) =>
            \A m \in Members(rooms[r]) : clientCode[m] = rooms[r].code

\* C33: a client that handles the join-success of its join, with nothing
\* else queued for it, holds the document and the language the room stores
C33_JoinerGetsState ==
    [][\A c \in Conns :
          (/\ inbox[c] # <<>>
           /\ Head(inbox[c]).ev = "join-success"
           /\ Deliver(c)
           /\ inbox'[c] = <<>>
           /\ HasRoom(rooms, clientRoomId[c])) =>
              /\ clientCode'[c] = rooms[clientRoomId[c]].code
              /\ clientLanguage'[c] = rooms[clientRoomId[c]].language]_vars

\* C34: a connected client that shows itself joined, with a room id, is
\* listed under its connection id among the users of the hub's room of that id
C34_JoinedMeansListed ==
    \A c \in Conns :
        (Up(c) /\ isJoined[c] /\ clientRoomId[c] # <<>>) =>
            /\ HasRoom(rooms, clientRoomId[c])
            /\ c \in Members(rooms[clientRoomId[c]])

\* C36: an offer handled by a client that is in no call creates no peer
\* connection and no remote stream.  A client is sent offers only by peers
\* that saw it in the call, so the client has executed leaveCall before.
C36_NoConnectionAfterLeave ==
    [][\A c \in Conns :
          (~localStream[c] /\ OnWebrtcOffer(c)) =>
              /\ \A p \in Conns : peerConnections'[c][p].made = peerConnections[c][p].made
              /\ remoteStreams'[c] = remoteStreams[c]]_vars

\* C37: a handler of the hub emits join-success to a connection only when it
\* handles that connection's join-room for a room that then lists the
\* connection among its users, and when the connection handles join-success
\* every room it has joined still lists it
C37_JoinSuccessToMember ==
    [][\A c \in Conns :
          /\ (nEvents' # nEvents /\ JoinSuccess \in Range(sent'[c])) =>
                /\ outbox[c] # <<>>
                /\ Head(outbox[c]).ev = "join-room"
                /\ HasRoom(rooms', ToUpper(Head(outbox[c]).roomId))
                /\ c \in Members(rooms'[ToUpper(Head(outbox[c]).roomId)])
          /\ (inbox[c] # <<>> /\ Head(inbox[c]) = JoinSuccess /\ Deliver(c)) =>
                /\ \E r \in RoomKeys : c \in joined[r]
                /\ \A r \in RoomKeys :
                      c \in joined[r] => HasRoom(rooms, r) /\ c \in Members(rooms[r])]_vars

\* a newcomer has joined and has handled its join-success
C37_Witness ==
    /\ \A c \in Conns : Up(c)
    /\ "c3" \in joined[<<"K", "7">>]
    /\ isJoined["c3"]
    /\ inbox["c3"] = <<>>

\* C38: when two connections are in a room's call, each with its stream,
\* nothing is in flight and every effect has run (so that nothing more
\* happens until a button is pressed), an offer of one of them has been sent
\* and is the remote description of the other's connection
C38_OfferEventuallySent ==
    \A a, b \in Conns :
        (/\ a # b
         /\ Quiet
         /\ listenerStream = localStream
         /\ localStream[a] /\ localStream[b]
         /\ ClientRoom(a) # <<>>
         /\ {a, b} \subseteq rooms[ClientRoom(a)].peers) =>
            peerConnections[a][b].remote \/ peerConnections[b][a].remote

====
